---- MODULE Spec2Model ----
(***************************************************************************)
(* The binary codec of package encoding (src/api/blockexplorer.go, from    *)
(* line 44 on): Encoder.encode / Decoder.decode and the functions built on *)
(* them, as a state machine over one byte stream.                          *)
(*                                                                         *)
(* Representation.                                                         *)
(*  - A byte sequence, a slice and an array are run-length sequences       *)
(*    <<[v |-> element, c |-> count], ...>> in canonical form (no empty    *)
(*    run, no two neighbouring runs with the same element), so that a      *)
(*    payload of several megabytes is a value the checker can hold.  A nil *)
(*    slice and an empty slice are both <<>>.                              *)
(*  - A 64-bit word (int, uint64, a length prefix) is the pair <<lo, hi>>  *)
(*    of its two 32-bit halves, each read as a signed 32-bit number; the   *)
(*    pair <<-1, -1>> is the word with all 64 bits set.  Narrow integers   *)
(*    (int8, uint8) are plain integers.                                    *)
(*  - A struct is the tuple of its fields, a pointer is <<>> (nil) or      *)
(*    <<v>>, a Currency is the natural number it holds.                    *)
(***************************************************************************)
EXTENDS Integers, Sequences, FiniteSets, TLC

\* ------------------------------------------------------------------ bounds

\* longest explicit slice among the values handed to Encode
MaxLen == 2
\* Encode calls on one stream
MaxEnc == 2
\* Decode calls on one stream
MaxDec == 2
\* values handed to one MarshalAll call
MaxAll == 2
\* longest stream of arbitrary bytes handed to a Decoder
MaxForged == 2

\* ------------------------------------------------------- program constants

maxDecodeLen == 10485760
maxSliceLen == 4194304

\* ------------------------------------------------------------ run sequences

Min(a, b) == IF a < b THEN a ELSE b

Run(x, k) == IF k = 0 THEN <<>> ELSE <<[v |-> x, c |-> k]>>

RECURSIVE RLen(_)
RLen(r) == IF Len(r) = 0 THEN 0 ELSE r[1].c + RLen(Tail(r))

RCat(r, s) ==
  IF Len(r) = 0 THEN s
  ELSE IF Len(s) = 0 THEN r
  ELSE IF r[Len(r)].v = s[1].v
       THEN SubSeq(r, 1, Len(r) - 1)
            \o <<[v |-> s[1].v, c |-> r[Len(r)].c + s[1].c]>> \o Tail(s)
       ELSE r \o s

RECURSIVE RTake(_, _)
RTake(r, k) ==
  IF k <= 0 \/ Len(r) = 0 THEN <<>>
  ELSE IF r[1].c <= k THEN <<r[1]>> \o RTake(Tail(r), k - r[1].c)
  ELSE <<[v |-> r[1].v, c |-> k]>>

RECURSIVE RDrop(_, _)
RDrop(r, k) ==
  IF k <= 0 \/ Len(r) = 0 THEN r
  ELSE IF r[1].c <= k THEN RDrop(Tail(r), k - r[1].c)
  ELSE <<[v |-> r[1].v, c |-> r[1].c - k]>> \o Tail(r)

\* element i (from 1) of a run sequence
RAt(r, i) == RTake(RDrop(r, i - 1), 1)[1].v

\* explicit sequence -> run sequence, and back
RECURSIVE Pack(_)
Pack(s) == IF Len(s) = 0 THEN <<>> ELSE RCat(Run(s[1], 1), Pack(Tail(s)))

RECURSIVE Explode(_)
Explode(r) ==
  IF Len(r) = 0 THEN <<>> ELSE [i \in 1..r[1].c |-> r[1].v] \o Explode(Tail(r))

\* r is the beginning of s
RIsPrefix(r, s) == RLen(r) <= RLen(s) /\ RTake(s, RLen(r)) = r

\* --------------------------------------------------------------- 64-bit words

\* the four bytes of a 32-bit half, least significant first
HalfBytes(h) ==
  <<h % 256, (h \div 256) % 256, (h \div 65536) % 256, (h \div 16777216) % 256>>

\* the 32-bit half made of four bytes, read as a signed number
HalfOf(b) ==
  b[1] + 256 * b[2] + 65536 * b[3]
    + 16777216 * (IF b[4] >= 128 THEN b[4] - 256 ELSE b[4])

\* EncUint64 / EncInt64: the 8 little-endian bytes of a 64-bit word
EncUint64(w) == Pack(HalfBytes(w[1]) \o HalfBytes(w[2]))
EncInt64(w) == EncUint64(w)

\* DecUint64 / DecInt64: the 64-bit word made of 8 little-endian bytes
DecUint64(b) ==
  LET s == Explode(b) IN <<HalfOf(SubSeq(s, 1, 4)), HalfOf(SubSeq(s, 5, 8))>>
DecInt64(b) == DecUint64(b)

\* uint64(n) for a length 0 <= n < 2^31
WordOfLen(n) == <<n, 0>>

\* the word, as an unsigned number, is above the number m (0 <= m < 2^31)
WordAbove(w, m) == w[2] # 0 \/ w[1] < 0 \/ w[1] > m

\* ---------------------------------------------------------------- the types

\* The Go types of the model, by name:
\*   bool, int8, uint8, int, uint64, string
\*   bytes     []byte                 hash      [2]byte
\*   bools     []bool                 flags     [2]bool
\*   foo       struct { S string; I int }
\*   bb        struct { A bool; B bool }
\*   blobs     struct { A, B, C []byte }
\*   unit      struct {}              units     []struct{}
\*   pbool     *bool                  pCurrency *Currency
\*   Currency  a type with MarshalSia (value receiver) and UnmarshalSia
\*             (pointer receiver)
\*   dict      map[string]bool
\*   dicts     []map[string]bool      pdict     *map[string]bool
\*   rec       struct { A bool; M map[string]bool }
Types ==
  {"bool", "int8", "uint8", "int", "uint64", "string", "bytes", "hash", "bools",
   "flags", "foo", "bb", "blobs", "unit", "units", "pbool", "pCurrency",
   "Currency", "dict", "dicts", "pdict", "rec"}

\* reflect.Value.Kind
Kind(t) ==
  CASE t = "bool" -> "Bool"
    [] t \in {"int8", "int"} -> "Int"
    [] t \in {"uint8", "uint64"} -> "Uint"
    [] t = "string" -> "String"
    [] t \in {"bytes", "bools", "units", "dicts"} -> "Slice"
    [] t \in {"hash", "flags"} -> "Array"
    [] t \in {"foo", "bb", "blobs", "unit", "Currency", "rec"} -> "Struct"
    [] t \in {"pbool", "pCurrency", "pdict"} -> "Ptr"
    [] OTHER -> "Map"

\* reflect.Type.Elem of a slice, array or pointer type
Elem(t) ==
  CASE t \in {"bytes", "hash"} -> "uint8"
    [] t \in {"bools", "flags", "pbool"} -> "bool"
    [] t = "units" -> "unit"
    [] t = "pCurrency" -> "Currency"
    [] t \in {"dicts", "pdict"} -> "dict"

\* the length of an array type
ArrayLen(t) == CASE t \in {"hash", "flags"} -> 2

\* the field types of a struct type, in declaration order
Fields(t) ==
  CASE t = "foo" -> <<"string", "int">>
    [] t = "bb" -> <<"bool", "bool">>
    [] t = "blobs" -> <<"bytes", "bytes", "bytes">>
    [] t = "unit" -> <<>>
    [] t = "rec" -> <<"bool", "dict">>

\* the bits of an integer type
Bits(t) == CASE t \in {"int8", "uint8"} -> 8 [] t \in {"int", "uint64"} -> 64

\* reflect.Type.Size, in bytes (64-bit platform)
Size(t) ==
  CASE t \in {"bool", "int8", "uint8"} -> 1
    [] t \in {"int", "uint64", "pbool", "pCurrency", "dict", "pdict"} -> 8
    [] t \in {"string", "rec"} -> 16
    [] t \in {"bytes", "bools", "units", "dicts"} -> 24
    [] t \in {"hash", "flags", "bb"} -> 2
    [] t = "foo" -> 24
    [] t = "blobs" -> 72
    [] t = "unit" -> 0
    [] t = "Currency" -> 32

\* the dynamic type of a value of type t implements SiaMarshaler: Currency
\* has the method, and so has *Currency (the method set of a pointer type
\* holds the value-receiver methods)
IsSiaMarshaler(t) == t \in {"Currency", "pCurrency"}

\* the type *t implements SiaUnmarshaler
IsSiaUnmarshaler(t) == t = "Currency"

\* the zero value of a type
RECURSIVE Zero(_)
Zero(t) ==
  CASE Kind(t) = "Bool" -> FALSE
    [] Kind(t) \in {"Int", "Uint"} -> IF Bits(t) = 64 THEN <<0, 0>> ELSE 0
    [] t = "Currency" -> 0
    [] Kind(t) = "Array" -> Run(Zero(Elem(t)), ArrayLen(t))
    [] Kind(t) = "Struct" /\ t # "Currency" -> [i \in 1..Len(Fields(t)) |-> Zero(Fields(t)[i])]
    [] OTHER -> <<>>

\* ------------------------------------------------------- the custom type

\* the big-endian bytes of a natural number, without leading zeros
RECURSIVE BigEndian(_)
BigEndian(c) == IF c = 0 THEN <<>> ELSE Append(BigEndian(c \div 256), c % 256)

RECURSIVE FromBigEndian(_)
FromBigEndian(s) ==
  IF Len(s) = 0 THEN 0
  ELSE 256 * FromBigEndian(SubSeq(s, 1, Len(s) - 1)) + s[Len(s)]

\* Currency.MarshalSia: the blob of a Currency
MarshalSia(c) == Pack(BigEndian(c))

\* Currency.UnmarshalSia accepts a blob of at most two bytes without a
\* leading zero, and panics on any other
UnmarshalSiaOk(b) == RLen(b) <= 2 /\ (RLen(b) = 0 \/ RAt(b, 1) # 0)
UnmarshalSia(b) == FromBigEndian(Explode(b))

\* ------------------------------------------------------------- the values

barString == Pack(<<98, 97, 114>>)

\* a payload one byte longer than maxSliceLen, and the longest one allowed
tooLong == Run(97, maxSliceLen + 1)
longest == Run(97, maxSliceLen)

\* the explicit sequences over S of at most k elements
RECURSIVE SeqsUpTo(_, _)
SeqsUpTo(S, k) ==
  IF k = 0 THEN {<<>>}
  ELSE SeqsUpTo(S, k - 1) \cup {Append(s, x) : s \in SeqsUpTo(S, k - 1), x \in S}

\* the values of each type that the model hands to Encode
Values(t) ==
  CASE t = "bool" -> {FALSE, TRUE}
    [] t = "int8" -> {-128, -1, 3}
    [] t = "uint8" -> {0, 255}
    [] t = "int" -> {<<3, 0>>, <<-1, -1>>}
    [] t = "uint64" -> {<<3, 0>>, <<-1, -1>>}
    [] t = "string" -> {<<>>, barString, tooLong}
    [] t = "bytes" -> {<<>>, Pack(<<1, 2>>), tooLong}
    [] t = "hash" -> {Pack(<<0, 0>>), Pack(<<1, 2>>)}
    [] t = "bools" -> {Pack(s) : s \in SeqsUpTo({FALSE, TRUE}, MaxLen)}
    [] t = "flags" -> {Pack(<<FALSE, TRUE>>), Pack(<<TRUE, TRUE>>)}
    [] t = "foo" -> {<<barString, <<3, 0>>>>, <<<<>>, <<-1, -1>>>>}
    [] t = "bb" -> {<<TRUE, FALSE>>, <<TRUE, TRUE>>}
    [] t = "blobs" -> {<<longest, longest, longest>>, <<<<>>, Pack(<<1>>), <<>>>>}
    [] t = "unit" -> {<<>>}
    [] t = "units" -> {Run(<<>>, k) : k \in 0..MaxLen} \cup {Run(<<>>, maxSliceLen + 1)}
    [] t = "pbool" -> {<<>>, <<TRUE>>, <<FALSE>>}
    [] t = "pCurrency" -> {<<>>, <<0>>, <<1>>, <<258>>}
    [] t = "Currency" -> {0, 1, 258}
    [] t = "dict" -> {<<>>}
    [] t = "dicts" -> {<<>>, Run(<<>>, 1)}
    [] t = "pdict" -> {<<>>, <<<<>>>>}
    [] t = "rec" -> {<<TRUE, <<>>>>}

\* x bound to r in F: With(x, LAMBDA r : e) is LET r == x IN e
With(x, F(_)) == F(x)

\* ---------------------------------------------------------------- the sink

\* An io.Writer: buf is what it has accepted; room is the number of bytes it
\* still accepts (-1: any number, a bytes.Buffer); a Write of more than room
\* bytes accepts room of them and returns the error fail ("nil": a short
\* write that reports no error).  fault records that some Write came up short.
NewBuffer == [buf |-> <<>>, room |-> -1, fail |-> "nil", fault |-> FALSE]

Write(w, p) ==
  IF w.room < 0 \/ RLen(p) <= w.room
  THEN [w |-> [w EXCEPT !.buf = RCat(@, p),
                        !.room = IF @ < 0 THEN @ ELSE @ - RLen(p)],
        n |-> RLen(p), err |-> "nil"]
  ELSE [w |-> [w EXCEPT !.buf = RCat(@, RTake(p, w.room)), !.room = 0,
                        !.fault = TRUE],
        n |-> w.room, err |-> w.fail]

\* ------------------------------------------------------------- the Encoder

\* The outcome of an encoding step is [w |-> the sink after it, err |-> the
\* error returned], err being "nil", "ErrShortWrite", "EIO", or "panic" when
\* the step does not return.
Done(w) == [w |-> w, err |-> "nil"]

\* Encoder.write without its comparison of n with len(p): the variant that
\* trusts the sink's error alone
writeUnchecked(w, p) ==
  With(Write(w, p), LAMBDA r : [w |-> r.w, err |-> r.err])

\* Encoder.write
write(w, p) ==
  With(Write(w, p), LAMBDA r :
    [w |-> r.w, err |-> IF r.n # RLen(p) THEN "ErrShortWrite" ELSE r.err])

\* WritePrefix: the 8-byte length of data, then data
WritePrefix(w, data) ==
  With(Write(w, EncUint64(WordOfLen(RLen(data)))), LAMBDA r :
    IF r.n # 8 \/ r.err # "nil"
    THEN [w |-> r.w, err |-> IF r.err # "nil" THEN r.err ELSE "ErrShortWrite"]
    ELSE With(Write(r.w, data), LAMBDA q :
           [w |-> q.w,
            err |-> IF q.err # "nil" THEN q.err
                    ELSE IF q.n # RLen(data) THEN "ErrShortWrite" ELSE "nil"]))

\* reflect.Value.Int and reflect.Value.Uint: the value as a 64-bit word
IntOf(t, val) == IF Bits(t) = 64 THEN val ELSE <<val, IF val < 0 THEN -1 ELSE 0>>
UintOf(t, val) == IF Bits(t) = 64 THEN val ELSE <<val, 0>>

\* Encoder.encode
RECURSIVE encode(_, _, _)
RECURSIVE encodeElems(_, _, _)
RECURSIVE encodeSame(_, _, _, _)
RECURSIVE encodeFields(_, _, _, _)

\* the loop of encode over k consecutive equal elements x; an element that
\* leaves the sink as it was does so for every further one
encodeSame(w, t, x, k) ==
  IF k = 0 THEN Done(w)
  ELSE With(encode(w, t, x), LAMBDA r :
         IF r.err # "nil" \/ r.w = w THEN r ELSE encodeSame(r.w, t, x, k - 1))

\* the loop of encode over the elements of a slice or array
encodeElems(w, t, runs) ==
  IF Len(runs) = 0 THEN Done(w)
  ELSE With(encodeSame(w, t, runs[1].v, runs[1].c), LAMBDA r :
         IF r.err # "nil" THEN r ELSE encodeElems(r.w, t, Tail(runs)))

\* the loop of encode over the fields of a struct, from field i on
encodeFields(w, fs, val, i) ==
  IF i > Len(fs) THEN Done(w)
  ELSE With(encode(w, fs[i], val[i]), LAMBDA r :
         IF r.err # "nil" THEN r ELSE encodeFields(r.w, fs, val, i + 1))

\* the reflect.Array case, which the reflect.Slice case falls through to
encodeArray(w, t, val) ==
  IF Elem(t) = "uint8" THEN write(w, val) ELSE encodeElems(w, Elem(t), val)

\* the default case with an error returned in place of the panic
encodeDefaultError(w, t) == [w |-> w, err |-> "could not marshal type"]

\* the default case: panic("could not marshal type ...")
encodeDefault(w, t) == [w |-> w, err |-> "panic"]

\* the SiaMarshaler case.  MarshalSia has a value receiver: called on a
\* *Currency it dereferences the pointer, and panics on a nil one.
encodeCustom(w, t, val) ==
  IF Kind(t) = "Ptr"
  THEN IF val = <<>> THEN [w |-> w, err |-> "panic"]
       ELSE WritePrefix(w, MarshalSia(val[1]))
  ELSE WritePrefix(w, MarshalSia(val))

\* the reflect.Ptr case
encodePtr(w, t, val) ==
  With(encode(w, "bool", val # <<>>), LAMBDA r :
    IF r.err # "nil" \/ val = <<>> THEN r ELSE encode(r.w, Elem(t), val[1]))

\* the reflect.Slice case
encodeSlice(w, t, val) ==
  With(write(w, EncUint64(WordOfLen(RLen(val)))), LAMBDA r :
    IF r.err # "nil" THEN r ELSE encodeArray(r.w, t, val))

encode(w, t, val) ==
  IF IsSiaMarshaler(t) THEN encodeCustom(w, t, val)
  ELSE CASE Kind(t) = "Ptr" -> encodePtr(w, t, val)
         [] Kind(t) = "Bool" -> write(w, Pack(<<IF val THEN 1 ELSE 0>>))
         [] Kind(t) = "Int" -> write(w, EncInt64(IntOf(t, val)))
         [] Kind(t) = "Uint" -> write(w, EncUint64(UintOf(t, val)))
         [] Kind(t) = "String" -> WritePrefix(w, val)
         [] Kind(t) = "Slice" -> encodeSlice(w, t, val)
         [] Kind(t) = "Array" -> encodeArray(w, t, val)
         [] Kind(t) = "Struct" -> encodeFields(w, Fields(t), val, 1)
         [] OTHER -> encodeDefault(w, t)

\* Encoder.Encode
Encode(w, t, v) == encode(w, t, v)

\* Marshal over a buffer that is not fresh: the variant that reuses a buffer
\* still holding a byte of an earlier call
MarshalReused(t, v) ==
  With(Encode([NewBuffer EXCEPT !.buf = Pack(<<0>>)], t, v), LAMBDA r :
    [out |-> r.w.buf, panic |-> r.err = "panic"])

\* Marshal: the bytes, or panic when Encode does not return
Marshal(t, v) ==
  With(Encode(NewBuffer, t, v), LAMBDA r :
    [out |-> r.w.buf, panic |-> r.err = "panic"])

\* MarshalAll with the buffer made inside its loop: the variant that returns
\* the encoding of the last value alone
RECURSIVE MarshalAllFresh(_, _, _)
MarshalAllFresh(w, vs, i) ==
  IF i > Len(vs) THEN [out |-> w.buf, panic |-> FALSE]
  ELSE With(Encode(NewBuffer, vs[i][1], vs[i][2]), LAMBDA r :
         IF r.err = "panic" THEN [out |-> r.w.buf, panic |-> TRUE]
         ELSE MarshalAllFresh(r.w, vs, i + 1))

\* MarshalAll over the typed values vs = <<<<type, value>>, ...>>
RECURSIVE MarshalAllFrom(_, _, _)
MarshalAllFrom(w, vs, i) ==
  IF i > Len(vs) THEN [out |-> w.buf, panic |-> FALSE]
  ELSE With(Encode(w, vs[i][1], vs[i][2]), LAMBDA r :
         IF r.err = "panic" THEN [out |-> r.w.buf, panic |-> TRUE]
         ELSE MarshalAllFrom(r.w, vs, i + 1))
MarshalAll(vs) == MarshalAllFrom(NewBuffer, vs, 1)

\* ------------------------------------------------------------- the Decoder

\* A Decoder: r is what is left of its source, n its byte count; st is "ok",
\* or "panic" once a panic is unwinding, for the reason why.  The rest records
\* what the present Decode call has done: alloc, the longest buffer or
\* container it has allocated for a declared length, in elements, and bytes,
\* the largest such allocation in bytes; over, that it has read a length
\* prefix above maxSliceLen, sized, that it has read one before elements of at
\* least one byte each, and overN, its byte count after the first such prefix.
NewDecoder(r) ==
  [r |-> r, n |-> 0, st |-> "ok", why |-> "", alloc |-> 0, bytes |-> 0,
   over |-> FALSE, sized |-> FALSE, overN |-> -1]

panic(d, why) == [d EXCEPT !.st = "panic", !.why = why]

\* Decoder.Read without its check of the byte count
checkLimitOff(d) == d

\* the check of the byte count in Decoder.Read
checkLimit(d) ==
  IF d.n > maxDecodeLen THEN panic(d, "encoded type exceeds size limit") ELSE d

\* Decoder.Read into a buffer of k > 0 bytes.  The source hands over what it
\* has, up to k bytes, and reports EOF once it has nothing.
Read(d, k) ==
  With(Min(k, RLen(d.r)), LAMBDA got :
    [d |-> checkLimit([d EXCEPT !.r = RDrop(@, got), !.n = @ + got]),
     b |-> RTake(d.r, got),
     err |-> IF got = 0 THEN "EOF" ELSE "nil"])

\* io.ReadFull(d, buf) for a buffer of k bytes: Read until the buffer is full
\* or Read returns an error
ReadFull(d, k) ==
  IF k = 0 THEN [d |-> d, b |-> <<>>, err |-> "nil"]
  ELSE With(Read(d, k), LAMBDA r1 :
         IF r1.d.st = "panic" \/ RLen(r1.b) = k \/ r1.err # "nil" THEN r1
         ELSE With(Read(r1.d, k - RLen(r1.b)), LAMBDA r2 :
                [d |-> r2.d, b |-> RCat(r1.b, r2.b),
                 err |-> IF RLen(r1.b) + RLen(r2.b) = k THEN "nil"
                         ELSE "unexpected EOF"]))

\* panic(err) if err != nil
orPanic(r) ==
  IF r.d.st = "ok" /\ r.err # "nil" THEN [r EXCEPT !.d = panic(@, r.err)] ELSE r

\* Decoder.readN
readN(d, k) == orPanic(ReadFull(d, k))

\* the word, as an unsigned number, times size is above m
ProductAbove(w, size, m) == size > 0 /\ w[1] > m \div size

\* a declared length has been read: what the call records about it
Declared(d, w, size) ==
  IF WordAbove(w, maxSliceLen)
  THEN [d EXCEPT !.over = TRUE, !.sized = @ \/ size > 0,
                 !.overN = IF @ < 0 THEN d.n ELSE @]
  ELSE d

\* a buffer or container of k elements of size bytes each has been allocated
Allocated(d, k, size) ==
  [d EXCEPT !.alloc = IF k > @ THEN k ELSE @,
            !.bytes = IF size = 0 THEN @
                      ELSE IF k > maxSliceLen \div size THEN maxSliceLen + 1
                      ELSE IF k * size > @ THEN k * size ELSE @]

\* ReadPrefix(d, maxLen): the 8-byte length, checked against maxLen before
\* the buffer is allocated, then that many bytes
ReadPrefix(d, maxLen) ==
  With(ReadFull(d, 8), LAMBDA r :
    IF r.d.st = "panic" \/ r.err # "nil" THEN [r EXCEPT !.b = <<>>]
    ELSE With(DecUint64(r.b), LAMBDA dataLen :
           IF WordAbove(dataLen, maxLen)
           THEN [d |-> Declared(r.d, dataLen, 1), b |-> <<>>,
                 err |-> "length exceeds maxLen"]
           ELSE ReadFull(Allocated(r.d, dataLen[1], 1), dataLen[1])))

\* Decoder.readPrefix
readPrefix(d) == orPanic(ReadPrefix(d, maxSliceLen))

\* reflect.Value.SetInt and SetUint: the word narrowed to the type
SetInt(t, w) ==
  IF Bits(t) = 64 THEN w
  ELSE IF (w[1] % 256) >= 128 THEN (w[1] % 256) - 256 ELSE w[1] % 256
SetUint(t, w) == IF Bits(t) = 64 THEN w ELSE w[1] % 256

\* the sanity check of a slice length without the product with the element
\* size: the variant that bounds the length by the int32 range alone
sliceTooLargeUnscaled(sliceLen, t) == WordAbove(sliceLen, 2147483647)

\* the sanity check of a slice length
sliceTooLarge(sliceLen, t) ==
  \/ WordAbove(sliceLen, 2147483647)
  \/ ProductAbove(sliceLen, Size(Elem(t)), maxSliceLen)

\* the index of the last element of the run that holds element i
RECURSIVE RunEnd(_, _)
RunEnd(r, i) == IF i <= r[1].c THEN r[1].c ELSE r[1].c + RunEnd(Tail(r), i - r[1].c)

\* elements i..j of the run sequence replaced by x
RFill(r, i, j, x) == RCat(RCat(RTake(r, i - 1), Run(x, j - i + 1)), RDrop(r, j))

\* The outcome of a decoding step is [d |-> the decoder after it, val |-> what
\* the target holds after it].
Kept(d, val) == [d |-> d, val |-> val]

RECURSIVE decode(_, _, _)
RECURSIVE decodeElems(_, _, _, _)
RECURSIVE decodeFields(_, _, _, _)

\* one turn of the loop over the elements: r is the outcome of decode on
\* element i, which stands for the elements i..j
decodeElemsNext(d, t, val, i, j, r) ==
  IF r.d.st = "panic" \/ j = RLen(val) THEN Kept(r.d, RFill(val, i, j, r.val))
  ELSE decodeElems(r.d, t, RFill(val, i, j, r.val), j + 1)

\* the loop of decode over the elements of a slice or array, from element i
\* on; an element decoded without a read decodes alike for the rest of its run
decodeElems(d, t, val, i) ==
  IF i > RLen(val) THEN Kept(d, val)
  ELSE With(decode(d, t, RAt(val, i)), LAMBDA r :
         decodeElemsNext(d, t, val, i, IF r.d = d THEN RunEnd(val, i) ELSE i, r))

\* the loop of decode over the fields of a struct, from field i on
decodeFields(d, fs, val, i) ==
  IF i > Len(fs) THEN Kept(d, val)
  ELSE With(decode(d, fs[i], val[i]), LAMBDA r :
         IF r.d.st = "panic" THEN Kept(r.d, [val EXCEPT ![i] = r.val])
         ELSE decodeFields(r.d, fs, [val EXCEPT ![i] = r.val], i + 1))

\* the reflect.Array case, which the reflect.Slice case falls through to:
\* bytes are read straight into the target
decodeArray(d, t, val) ==
  IF Elem(t) = "uint8"
  THEN With(orPanic(ReadFull(d, RLen(val))), LAMBDA r :
         Kept(r.d, RCat(r.b, RDrop(val, RLen(r.b)))))
  ELSE decodeElems(d, Elem(t), val, 1)

\* the reflect.Bool case with the store moved before the check of the byte
decodeBoolEager(d, val) ==
  With(readN(d, 1), LAMBDA r :
    IF r.d.st = "panic" THEN Kept(r.d, val)
    ELSE IF RAt(r.b, 1) > 1
         THEN Kept(panic(r.d, "boolean value was not 0 or 1"), RAt(r.b, 1) = 1)
         ELSE Kept(r.d, RAt(r.b, 1) = 1))

\* the reflect.Bool case
decodeBool(d, val) ==
  With(readN(d, 1), LAMBDA r :
    IF r.d.st = "panic" THEN Kept(r.d, val)
    ELSE IF RAt(r.b, 1) > 1
         THEN Kept(panic(r.d, "boolean value was not 0 or 1"), val)
         ELSE Kept(r.d, RAt(r.b, 1) = 1))

\* the word fits the integer type t (reflect.Value.OverflowInt, OverflowUint)
Fits(t, w) ==
  CASE Bits(t) = 64 -> TRUE
    [] Kind(t) = "Int" -> (w[2] = 0 /\ w[1] >= 0 /\ w[1] < 128)
                           \/ (w[2] = -1 /\ w[1] < 0 /\ w[1] >= -128)
    [] OTHER -> w[2] = 0 /\ w[1] >= 0 /\ w[1] < 256

\* the reflect.Int and reflect.Uint cases with a check that the word fits the
\* target: the variant that rejects what SetInt and SetUint truncate
decodeIntChecked(d, t, val) ==
  With(readN(d, 8), LAMBDA r :
    IF r.d.st = "panic" THEN Kept(r.d, val)
    ELSE IF ~Fits(t, DecUint64(r.b)) THEN Kept(panic(r.d, "integer overflow"), val)
    ELSE Kept(r.d, IF Kind(t) = "Int" THEN SetInt(t, DecInt64(r.b))
                   ELSE SetUint(t, DecUint64(r.b))))

\* the reflect.Int and reflect.Uint cases
decodeInt(d, t, val) ==
  With(readN(d, 8), LAMBDA r :
    IF r.d.st = "panic" THEN Kept(r.d, val)
    ELSE Kept(r.d, IF Kind(t) = "Int" THEN SetInt(t, DecInt64(r.b))
                   ELSE SetUint(t, DecUint64(r.b))))

\* the reflect.String case
decodeString(d, val) ==
  With(readPrefix(d), LAMBDA r :
    Kept(r.d, IF r.d.st = "panic" THEN val ELSE r.b))

\* the reflect.Slice case, the length sliceLen read
decodeSliceOf(d, t, val, sliceLen) ==
  IF sliceTooLarge(sliceLen, t)
  THEN Kept(panic(Declared(d, sliceLen, Size(Elem(t))), "slice is too large"), val)
  ELSE decodeArray(Allocated(Declared(d, sliceLen, Size(Elem(t))),
                             sliceLen[1], Size(Elem(t))),
                   t, Run(Zero(Elem(t)), sliceLen[1]))

\* the reflect.Slice case
decodeSlice(d, t, val) ==
  With(readN(d, 8), LAMBDA r :
    IF r.d.st = "panic" THEN Kept(r.d, val)
    ELSE decodeSliceOf(r.d, t, val, DecUint64(r.b)))

\* the reflect.Ptr case
decodePtr(d, t, val) ==
  With(decode(d, "bool", FALSE), LAMBDA r :
    IF r.d.st = "panic" \/ ~r.val THEN Kept(r.d, val)
    ELSE With(decode(r.d, Elem(t), IF val = <<>> THEN Zero(Elem(t)) ELSE val[1]),
              LAMBDA q : Kept(q.d, <<q.val>>)))

\* the SiaUnmarshaler case
decodeCustom(d, val) ==
  With(readPrefix(d), LAMBDA r :
    IF r.d.st = "panic" THEN Kept(r.d, val)
    ELSE IF UnmarshalSiaOk(r.b) THEN Kept(r.d, UnmarshalSia(r.b))
    ELSE Kept(panic(r.d, "UnmarshalSia"), val))

\* Decoder.decode
decode(d, t, val) ==
  IF IsSiaUnmarshaler(t) THEN decodeCustom(d, val)
  ELSE CASE Kind(t) = "Ptr" -> decodePtr(d, t, val)
         [] Kind(t) = "Bool" -> decodeBool(d, val)
         [] Kind(t) \in {"Int", "Uint"} -> decodeInt(d, t, val)
         [] Kind(t) = "String" -> decodeString(d, val)
         [] Kind(t) = "Slice" -> decodeSlice(d, t, val)
         [] Kind(t) = "Array" -> decodeArray(d, t, val)
         [] Kind(t) = "Struct" -> decodeFields(d, Fields(t), val, 1)
         [] OTHER -> Kept(panic(d, "unknown type"), val)

\* Decode without its deferred recover: a panic leaves the call
unrecovered(d) ==
  IF d.st = "panic" THEN [err |-> "nil", panic |-> TRUE]
  ELSE [err |-> "nil", panic |-> FALSE]

\* the deferred function of Decode: a panic becomes the error returned
recovered(d) ==
  IF d.st = "panic" THEN [err |-> "could not decode type", panic |-> FALSE]
  ELSE [err |-> "nil", panic |-> FALSE]

\* Decoder.Decode(v), v being [ref |-> "nil", "value" or "ptr", t |-> the type
\* pointed to, val |-> the value pointed to].  The outcome is the decoder, the
\* value pointed to, the error returned, and panic: the call does not return.
Decode(d, v) ==
  IF v.ref # "ptr"
  THEN [d |-> d, val |-> v.val, err |-> "errBadPointer", panic |-> FALSE]
  ELSE With(decode(NewDecoder(d.r), v.t, v.val), LAMBDA r :
         [d |-> r.d, val |-> r.val, err |-> recovered(r.d).err,
          panic |-> recovered(r.d).panic])

\* Unmarshal
Unmarshal(b, v) == Decode(NewDecoder(b), v)

\* WriteFile(v), the file holding `file` before: the content of the file
\* after, and the error returned; created is whether os.Create succeeds
WriteFile(file, t, v, created) ==
  IF ~created THEN [file |-> file, err |-> "ENOENT"]
  ELSE With(Encode(NewBuffer, t, v), LAMBDA r : [file |-> r.w.buf, err |-> r.err])

\* ReadFile(v) of a file holding `file`; opened is whether os.Open succeeds
ReadFile(file, v, opened) ==
  IF ~opened
  THEN [d |-> NewDecoder(<<>>), val |-> v.val, err |-> "ENOENT", panic |-> FALSE]
  ELSE Decode(NewDecoder(file), v)

\* ------------------------------------------------------------- the inputs

\* the typed values <<type, value>> handed to Encode, Marshal and WriteFile
Typed(T) == UNION {{<<t, x>> : x \in Values(t)} : t \in T}
AllValues == Typed(Types)

\* the typed values of the second and later calls on one stream
LaterValues ==
  {<<"bool", TRUE>>, <<"string", barString>>, <<"foo", <<barString, <<3, 0>>>>>>,
   <<"pbool", <<>>>>, <<"hash", Pack(<<1, 2>>)>>, <<"Currency", 258>>}

\* a value other than the zero value, held by a target before Decode
Dirty(t) ==
  CASE t = "bool" -> TRUE
    [] t = "int8" -> -7
    [] t = "uint8" -> 7
    [] t \in {"int", "uint64"} -> <<7, 0>>
    [] t = "string" -> Pack(<<120>>)
    [] t = "bytes" -> Pack(<<7, 7, 7>>)
    [] t = "hash" -> Pack(<<7, 7>>)
    [] t = "bools" -> Pack(<<TRUE, TRUE, TRUE>>)
    [] t = "flags" -> Pack(<<TRUE, FALSE>>)
    [] t = "foo" -> <<Pack(<<120>>), <<7, 0>>>>
    [] t = "bb" -> <<FALSE, TRUE>>
    [] t = "blobs" -> <<Pack(<<7>>), Pack(<<7>>), Pack(<<7>>)>>
    [] t = "unit" -> <<>>
    [] t = "units" -> Run(<<>>, 3)
    [] t = "pbool" -> <<TRUE>>
    [] t = "pCurrency" -> <<7>>
    [] t = "Currency" -> 7
    [] t = "dict" -> <<>>
    [] t = "dicts" -> Run(<<>>, 1)
    [] t = "pdict" -> <<<<>>>>
    [] t = "rec" -> <<TRUE, <<>>>>

Priors(t) == {Zero(t), Dirty(t)}

\* streams written by someone else than the Encoder
Forged ==
  {Pack(s) : s \in SeqsUpTo({0, 1, 2}, MaxForged)}
    \cup {EncUint64(w) : w \in {<<maxSliceLen + 1, 0>>, <<maxSliceLen, 0>>, <<-1, -1>>,
                                <<0, 1>>, <<2147483647, 0>>}}
    \cup {RCat(EncUint64(<<3, 0>>), Pack(<<98>>)),
          RCat(EncUint64(<<1, 0>>), Pack(<<0>>)),
          RCat(EncUint64(<<3, 0>>), Pack(<<1, 2, 3>>)),
          RCat(Pack(<<1>>), RCat(EncUint64(<<1, 0>>), Pack(<<9>>))),
          RCat(Pack(<<1>>), EncUint64(<<maxSliceLen + 1, 0>>))}

\* the arguments <<ref, type, value>> of Decode: a pointer to a target holding
\* the value, a nil pointer, a value that is no pointer
Targets(T) == UNION {{<<"ptr", t, x>> : x \in Priors(t)} : t \in T}
BadTargets == {<<"nil", "bool", FALSE>>, <<"value", "bool", TRUE>>}
Arg(a) == [ref |-> a[1], t |-> a[2], val |-> a[3]]

\* --------------------------------------------------------------- the state

VARIABLES
  pc,     \* "idle", "writing", "reading", "file" or "done"
  w,      \* the sink of the Encoder
  sent,   \* the Encode calls on the stream so far: <<[t, v, err], ...>>
  d,      \* the Decoder
  nDec,   \* the number of Decode calls so far
  last    \* the last call, its arguments and its outcome

vars == <<pc, w, sent, d, nDec, last>>

Init ==
  /\ pc = "idle"
  /\ w = NewBuffer
  /\ sent = <<>>
  /\ d = NewDecoder(<<>>)
  /\ nDec = 0
  /\ last = [op |-> "none"]

\* enc.Encode(v) on the Encoder of the stream
DoEncode(tv) ==
  /\ pc \in {"idle", "writing"}
  /\ Len(sent) < MaxEnc
  /\ \A i \in 1..Len(sent) : sent[i].err = "nil"
  /\ With(Encode(w, tv[1], tv[2]), LAMBDA r :
       /\ w' = r.w
       /\ sent' = Append(sent, [t |-> tv[1], v |-> tv[2], err |-> r.err])
       /\ last' = [op |-> "Encode", t |-> tv[1], v |-> tv[2], err |-> r.err,
                   pre |-> w.buf])
  /\ pc' = "writing"
  /\ UNCHANGED <<d, nDec>>

\* NewEncoder(sink).Encode(v) on a sink that accepts room bytes
DoEncodeTo(tv, room, fail) ==
  /\ pc = "idle"
  /\ With(Encode([NewBuffer EXCEPT !.room = room, !.fail = fail], tv[1], tv[2]),
          LAMBDA r :
       /\ w' = r.w
       /\ last' = [op |-> "EncodeTo", t |-> tv[1], v |-> tv[2], err |-> r.err,
                   pre |-> <<>>])
  /\ pc' = "done"
  /\ UNCHANGED <<sent, d, nDec>>

\* MarshalAll(vs...)
DoMarshalAll(vs) ==
  /\ pc = "idle"
  /\ With(MarshalAll(vs), LAMBDA r :
       last' = [op |-> "MarshalAll", vs |-> vs, out |-> r.out, panic |-> r.panic])
  /\ pc' = "done"
  /\ UNCHANGED <<w, sent, d, nDec>>

\* a stream of someone else's making reaches the Decoder
DoForge(s) ==
  /\ pc = "idle"
  /\ d' = NewDecoder(s)
  /\ pc' = "reading"
  /\ last' = [op |-> "Forge"]
  /\ UNCHANGED <<w, sent, nDec>>

\* the Decoder is given what the Encoder has written
DoOpen ==
  /\ pc = "writing"
  /\ d' = NewDecoder(w.buf)
  /\ pc' = "reading"
  /\ last' = [op |-> "Open"]
  /\ UNCHANGED <<w, sent, nDec>>

\* the types a Decode call may name: that of the value next in the stream, or,
\* for the first call on a stream of at most one value, any type
TargetTypes ==
  IF nDec = 0 /\ Len(sent) <= 1 THEN Types
  ELSE IF nDec < Len(sent) THEN {sent[nDec + 1].t}
  ELSE {}

\* dec.Decode(v), for the argument a = <<ref, type, value>>
DoDecode(a) ==
  /\ pc = "reading"
  /\ nDec < MaxDec
  /\ last.op \in {"Open", "Forge"} \/ (last.op = "Decode" /\ last.err = "nil")
  /\ With(Decode(d, Arg(a)), LAMBDA r :
       /\ d' = r.d
       /\ last' = [op |-> "Decode", ref |-> a[1], t |-> a[2], before |-> a[3],
                   after |-> r.val, err |-> r.err, panic |-> r.panic,
                   src |-> d.r])
  /\ nDec' = nDec + 1
  /\ UNCHANGED <<pc, w, sent>>

\* WriteFile(filename, v)
DoWriteFile(tv, created) ==
  /\ pc = "idle"
  /\ With(WriteFile(<<>>, tv[1], tv[2], created), LAMBDA r :
       /\ w' = [NewBuffer EXCEPT !.buf = r.file]
       /\ last' = [op |-> "WriteFile", t |-> tv[1], v |-> tv[2], err |-> r.err])
  /\ pc' = "file"
  /\ UNCHANGED <<sent, d, nDec>>

\* ReadFile(filename, v), for the argument a = <<ref, type, value>>
DoReadFile(a, opened) ==
  /\ pc = "file"
  /\ last.op = "WriteFile"
  /\ With(ReadFile(w.buf, Arg(a), opened), LAMBDA r :
       /\ d' = r.d
       /\ last' = [op |-> "ReadFile", ref |-> a[1], t |-> a[2], before |-> a[3],
                   after |-> r.val, err |-> r.err, panic |-> r.panic,
                   src |-> w.buf, wrote |-> last])
  /\ pc' = "done"
  /\ UNCHANGED <<w, sent, nDec>>


Next ==
  \/ \E tv \in (IF Len(sent) = 0 THEN AllValues ELSE LaterValues) : DoEncode(tv)
  \/ \E tv \in AllValues, room \in {0, 1, 8, 9}, fail \in {"nil", "EIO"} :
       DoEncodeTo(tv, room, fail)
  \/ \E vs \in SeqsUpTo(LaterValues, MaxAll) : DoMarshalAll(vs)
  \/ \E s \in Forged : DoForge(s)
  \/ DoOpen
  \/ \E a \in Targets(TargetTypes) \cup BadTargets : DoDecode(a)
  \/ \E tv \in LaterValues, created \in BOOLEAN : DoWriteFile(tv, created)
  \/ \E a \in Targets(Types) \cup BadTargets, opened \in BOOLEAN :
       DoReadFile(a, opened)

Spec == Init /\ [][Next]_vars

\* -------------------------------------------------------------- the claims

\* the last call is a Decode or a ReadFile that got as far as Decoder.Decode
Decoded == last.op \in {"Decode", "ReadFile"} /\ (last.op = "ReadFile" => last.err # "ENOENT")

\* the last call is the one Decode of a stream holding the one value that one
\* successful Encode wrote
DecodedOne ==
  /\ last.op = "Decode" /\ nDec = 1
  /\ Len(sent) = 1 /\ sent[1].err = "nil"

\* the concatenation of Marshal over the typed values vs, from value i on
RECURSIVE CatMarshal(_, _)
CatMarshal(vs, i) ==
  IF i > Len(vs) THEN <<>> ELSE RCat(Marshal(vs[i][1], vs[i][2]).out, CatMarshal(vs, i + 1))

\* the fields of a struct value as typed values
FieldsOf(t, v) == [i \in 1..Len(Fields(t)) |-> <<Fields(t)[i], v[i]>>]

\* the shape of a type on the wire, for the types that share one with another
Layout(t) ==
  CASE Kind(t) \in {"Int", "Uint"} -> "word"
    [] t \in {"string", "bytes"} -> "blob"
    [] OTHER -> t

\* C1 (as claimed): Round-trip.  A value that Marshal encodes in no more than
\* maxSliceLen bytes, decoded by Unmarshal into a fresh target of its own type,
\* comes back without an error and equal to what was encoded.
C1_RoundTrip ==
  (/\ DecodedOne
   /\ last.ref = "ptr" /\ last.t = sent[1].t /\ last.before = Zero(last.t)
   /\ RLen(w.buf) <= maxSliceLen)
  => (last.err = "nil" /\ last.after = sent[1].v)

\* C2 (as claimed): a Decode that returns an error leaves the target holding
\* exactly the value it held before the call.
C2_AllOrNothing == (Decoded /\ last.err # "nil") => last.after = last.before

\* C2 (amended): a Decode that returns an error leaves the target as it was
\* when the target is a bool, an integer or a string, and whenever the argument
\* is a nil pointer or no pointer.
C2_ScalarUnchanged ==
  (/\ Decoded /\ last.err # "nil"
   /\ (last.ref # "ptr" \/ Kind(last.t) \in {"Bool", "Int", "Uint", "String"}))
  => last.after = last.before

C2_Witness ==
  /\ last.op = "Decode" /\ last.ref = "ptr" /\ last.t = "bool"
  /\ last.before = TRUE /\ last.err # "nil"
  /\ d.why = "boolean value was not 0 or 1"

\* C3 (as claimed): at no point of a Decode call has the Decoder read more
\* than maxDecodeLen bytes from its source.
C3_NeverOverCeiling == Decoded => d.n <= maxDecodeLen

\* C3 (amended): the byte count of a Decode call starts at 0 and counts the
\* bytes the call has taken from the source; the call returns an error once
\* the count is above maxDecodeLen, which it passes by no more than the one
\* read that crossed it (at most maxSliceLen bytes).
C3_AbortOnceOver ==
  (Decoded /\ last.ref = "ptr") =>
    /\ d.n = RLen(last.src) - RLen(d.r)
    /\ d.n > maxDecodeLen =>
         (last.err # "nil" /\ d.why = "encoded type exceeds size limit")
    /\ d.n <= maxDecodeLen + maxSliceLen

C3_Witness ==
  /\ last.op = "Decode" /\ nDec = 1 /\ last.t = "blobs"
  /\ d.n > maxDecodeLen /\ last.err # "nil"

\* C4 (as claimed): a length prefix above maxSliceLen, before elements of any
\* type, makes Decode return an error with no buffer or container of the
\* declared length allocated and no byte read after the prefix.
C4_PerSequence ==
  (Decoded /\ d.over) =>
    (last.err # "nil" /\ d.alloc <= maxSliceLen /\ d.n = d.overN)

\* C4 (amended): a length prefix above maxSliceLen before a string, a custom
\* blob, or elements of at least one byte each makes Decode return an error
\* with nothing allocated for the declared length and no byte read after the
\* prefix; and no Decode allocates more than maxSliceLen bytes for a declared
\* length.
C4_SizedSequence ==
  Decoded =>
    /\ d.bytes <= maxSliceLen
    /\ (d.over /\ d.sized) =>
         (last.err # "nil" /\ d.alloc <= maxSliceLen /\ d.n = d.overN)

C4_Witness ==
  /\ last.op = "Decode" /\ last.t = "bytes"
  /\ d.over /\ d.sized /\ d.why = "slice is too large" /\ last.err # "nil"

C6_Deterministic ==
  /\ (last.op = "Encode" /\ last.err = "nil") =>
       w.buf = RCat(last.pre, Marshal(last.t, last.v).out)
  /\ (last.op = "EncodeTo" /\ last.err # "panic") =>
       RIsPrefix(w.buf, Marshal(last.t, last.v).out)
  /\ (last.op = "WriteFile" /\ last.err = "nil") =>
       w.buf = Marshal(last.t, last.v).out

C6_Witness ==
  /\ last.op = "Encode" /\ Len(sent) = 2 /\ last.err = "nil"
  /\ RLen(last.pre) > 0 /\ last.t = "foo" /\ sent[1].t = "foo"

\* C7: MarshalAll of a list of values is the concatenation of Marshal of each,
\* the empty list giving no byte; the encoding of a struct is the
\* concatenation of the encodings of its fields in declaration order.
C7_Concatenation ==
  /\ last.op = "MarshalAll" =>
       (~last.panic /\ last.out = CatMarshal(last.vs, 1))
  /\ (last.op = "Encode" /\ last.err = "nil" /\ Kind(last.t) = "Struct"
        /\ ~IsSiaMarshaler(last.t)) =>
       w.buf = RCat(last.pre, CatMarshal(FieldsOf(last.t, last.v), 1))

C7_Witness ==
  /\ last.op = "MarshalAll" /\ Len(last.vs) = 2
  /\ last.vs[1][1] = "foo" /\ last.vs[2][1] = "bool"
  /\ RLen(last.out) = 20

\* C8 (as claimed): ReadFile into a target of another type than the one
\* WriteFile wrote, the target's type being one that holds data, returns an
\* error.
C8_MismatchRejected ==
  (/\ last.op = "ReadFile" /\ last.ref = "ptr" /\ last.err # "ENOENT"
   /\ last.wrote.err = "nil" /\ last.wrote.t # last.t /\ Size(last.t) > 0)
  => last.err # "nil"

\* C8 (amended): the bytes carry no type.  Decoding the encoding of a value of
\* one type into a target of another type with the same shape on the wire (two
\* integer types; string and byte slice) returns no error, and the target
\* holds the bytes read as its own type: encoded again they are what was read.
C8_SameLayoutDecodes ==
  /\ (/\ DecodedOne /\ last.ref = "ptr"
      /\ sent[1].t # last.t /\ Layout(sent[1].t) = Layout(last.t)
      /\ RLen(w.buf) <= maxSliceLen)
     => (/\ last.err = "nil"
         /\ (Layout(last.t) = "blob" \/ Bits(last.t) = 64) =>
              Marshal(last.t, last.after).out = last.src)
  /\ (/\ last.op = "ReadFile" /\ last.ref = "ptr" /\ last.err # "ENOENT"
      /\ last.wrote.err = "nil" /\ last.wrote.t = "string"
      /\ last.t = "bytes")
     => (last.err = "nil" /\ Marshal(last.t, last.after).out = last.src)

C8_Witness ==
  /\ DecodedOne /\ last.ref = "ptr"
  /\ sent[1].t = "uint64" /\ sent[1].v = <<-1, -1>>
  /\ last.t = "int" /\ last.err = "nil" /\ last.after = <<-1, -1>>

\* C9 (as claimed): Encode of a pointer writes the one byte 0 when the pointer
\* is nil, and the byte 1 followed by the encoding of the value pointed to
\* when it is not, also when the type pointed to is a SiaMarshaler.
C9_OptionalShape ==
  (last.op = "Encode" /\ Len(sent) = 1 /\ Kind(last.t) = "Ptr"
     /\ Kind(Elem(last.t)) # "Map") =>
    /\ last.err = "nil"
    /\ w.buf = IF last.v = <<>> THEN Pack(<<0>>)
               ELSE RCat(Pack(<<1>>), Marshal(Elem(last.t), last.v[1]).out)

\* C10: an Encode during which the sink accepted fewer bytes than it was
\* offered, with or without an error of its own, returns an error.
C10_ShortWriteIsError ==
  (last.op = "EncodeTo" /\ w.fault) => last.err \in {"ErrShortWrite", "EIO"}

C10_Witness ==
  /\ last.op = "EncodeTo" /\ w.fault /\ last.t = "string"
  /\ RLen(w.buf) = 9 /\ last.err = "ErrShortWrite"

\* the encoder, given a sink that accepts everything, reaches a value of a
\* category it does not support: the value is one, or holds one in an element,
\* in a field, or behind a pointer that is not nil, outside any value that is
\* encoded by its own MarshalSia
RECURSIVE Unsupported(_, _)
Unsupported(t, v) ==
  IF IsSiaMarshaler(t) THEN FALSE
  ELSE CASE Kind(t) = "Map" -> TRUE
         [] Kind(t) = "Ptr" -> v # <<>> /\ Unsupported(Elem(t), v[1])
         [] Kind(t) \in {"Slice", "Array"} ->
              \E i \in 1..Len(v) : Unsupported(Elem(t), v[i].v)
         [] Kind(t) = "Struct" ->
              \E i \in 1..Len(Fields(t)) : Unsupported(Fields(t)[i], v[i])
         [] OTHER -> FALSE

\* the last call is an Encode, on the stream, on a sink of its own, or by
\* WriteFile on a file it could create
Encoded ==
  last.op \in {"Encode", "EncodeTo", "WriteFile"} /\ last.err # "ENOENT"

\* C11: an Encode that reaches a value of an unsupported category panics; it
\* neither returns an error nor succeeds.  An Encode returns an error only when
\* a write to its sink came up short or failed, and on a sink that accepts
\* everything it panics only on reaching such a value or on calling MarshalSia
\* through a nil pointer.
C11_UnsupportedPanics ==
  Encoded =>
    /\ (Unsupported(last.t, last.v) /\ ~w.fault) => last.err = "panic"
    /\ last.err \notin {"nil", "panic"} => w.fault
    /\ (last.err = "panic" /\ ~Unsupported(last.t, last.v)) =>
         (last.t = "pCurrency" /\ last.v = <<>>)
    /\ Unsupported(last.t, last.v) => Marshal(last.t, last.v).panic

C11_Witness ==
  /\ last.op = "Encode" /\ last.t = "rec" /\ last.err = "panic"
  /\ w.buf = Pack(<<1>>)

\* the last call is the k-th Decode, into a pointer to a target of the k-th
\* value's type, on the stream that successful Encode calls wrote, k = nDec
DecodedInOrder ==
  /\ last.op = "Decode" /\ last.ref = "ptr"
  /\ nDec >= 1 /\ nDec <= Len(sent)
  /\ \A i \in 1..Len(sent) : sent[i].err = "nil"
  /\ last.t = sent[nDec].t

\* C12 (as claimed): on a stream of encoded values of no more than maxSliceLen
\* bytes in all, the k-th Decode into a fresh target of the k-th value's type
\* returns no error, leaves the k-th value in the target, has taken from the
\* source exactly the bytes Encode wrote for it, and has counted these bytes
\* from 0.
C12_Framing ==
  (DecodedInOrder /\ last.before = Zero(last.t) /\ RLen(w.buf) <= maxSliceLen) =>
    /\ last.err = "nil"
    /\ last.after = sent[nDec].v
    /\ RLen(last.src) - RLen(d.r) = RLen(Marshal(sent[nDec].t, sent[nDec].v).out)
    /\ d.n = RLen(last.src) - RLen(d.r)

\* what the last Decode would have left in a fresh target of the same type
IntoFresh ==
  Decode(NewDecoder(last.src), [ref |-> "ptr", t |-> last.t, val |-> Zero(last.t)]).val

\* C13 (as claimed): the value a successful Decode leaves in the target is
\* the one it leaves in a fresh target, whatever the target held before.
C13_BytesOnly ==
  (Decoded /\ last.ref = "ptr" /\ last.err = "nil") => last.after = IntoFresh

====
